---- MODULE Spec2Model ----
(***************************************************************************)
(* A model of mevDistributionSimulator.py: the MEV redistribution          *)
(* simulator (Baseline, StakePool, EqualPool, RootStakePool) and its Gini  *)
(* helper.                                                                 *)
(*                                                                         *)
(* Numbers.  The program computes in binary floating point (numpy          *)
(* float64).  The model keeps the shape of that arithmetic and reduces its *)
(* width: a float is a multiple of a smallest unit, with at most MantBits  *)
(* significant bits, and every arithmetic result is rounded to the nearest *)
(* such number, ties to even.  Amounts of money (mev values, ledgers,      *)
(* pools) are integers counting units of Eps, the constant gini() adds;    *)
(* dimensionless floats (root weights, gini's ratio and result) are        *)
(* integers counting units of 1/One.                                       *)
(*                                                                         *)
(* Indices.  Python's validator v (0-based) is index v+1 here; block b of  *)
(* the program is mev_values[b+1].  The variable b keeps Python's value.   *)
(***************************************************************************)
EXTENDS Integers, Sequences, FiniteSets

\* ------------------------------------------------------------------ bounds
\* Width of the significand of the model's floats (float64 has 53).
MantBits == 10
\* Largest NUM_VALIDATORS, NUM_BLOCKS and EPOCH_SIZE the model draws.
MaxValidators == 2
MaxBlocks == 3
MaxEpoch == 2
\* Largest array gini() is applied to on its own.
MaxArr == 3

\* --------------------------------------------------- floating point helpers
RECURSIVE Pow2(_)
Pow2(k) == IF k <= 0 THEN 1 ELSE 2 * Pow2(k - 1)

\* 1.0 as a dimensionless float.
One == Pow2(MantBits - 1)

Abs(x) == IF x < 0 THEN -x ELSE x

\* The first magnitude that needs more than MantBits bits.
MantLimit == Pow2(MantBits)

RECURSIVE UlpFrom(_, _)
UlpFrom(a, e) == IF a < MantLimit * e THEN e ELSE UlpFrom(a, 2 * e)

\* The spacing of the floats around magnitude a (a >= 0, in units).
Ulp(a) == UlpFrom(a, 1)

\* n / d (d > 0) rounded to the nearest float, ties to the even significand.
RoundRat(n, d) ==
    LET a    == Abs(n)
        u    == Ulp(a \div d)
        m    == a \div (d * u)
        rem  == a - m * d * u
        up   == \/ 2 * rem > d * u
                \/ (2 * rem = d * u /\ m % 2 = 1)
        r    == (IF up THEN m + 1 ELSE m) * u
    IN  IF n < 0 THEN -r ELSE r

Fl(x) == RoundRat(x, 1)

\* x + y and x - y of two floats of the same scale.
FAdd(x, y) == Fl(x + y)
FSub(x, y) == Fl(x - y)

RECURSIVE ISqrtFrom(_, _, _)
ISqrtFrom(n, lo, hi) ==
    IF lo >= hi THEN lo
    ELSE LET mid == (lo + hi + 1) \div 2
         IN  IF mid <= n \div mid THEN ISqrtFrom(n, mid, hi)
             ELSE ISqrtFrom(n, lo, mid - 1)

\* floor(sqrt(n))
ISqrt(n) == ISqrtFrom(n, 0, n)

\* np.sqrt of an integer k >= 0, as a dimensionless float: sqrt(k) rounded.
FSqrt(k) ==
    LET n   == k * One * One
        r   == ISqrt(n)
        u   == Ulp(r)
        m   == r \div u
        \* sqrt(n) against the midpoint (2m+1)u/2 of the two floats around it
        mid2 == (2 * m + 1) * u
        up  == \/ 4 * n > mid2 * mid2
               \/ (4 * n = mid2 * mid2 /\ m % 2 = 1)
    IN  (IF up THEN m + 1 ELSE m) * u

\* ------------------------------------------------------- sequence helpers
RECURSIVE SumSeq(_)
SumSeq(s) == IF s = <<>> THEN 0 ELSE s[1] + SumSeq(Tail(s))

\* The sum of s added up left to right in floating point (np.sum and
\* np.cumsum of fewer than 8 elements).
RECURSIVE FSumFrom(_, _)
FSumFrom(acc, s) == IF s = <<>> THEN acc ELSE FSumFrom(FAdd(acc, s[1]), Tail(s))

FSum(s) == IF s = <<>> THEN 0 ELSE FSumFrom(s[1], Tail(s))

RECURSIVE Insert(_, _)
Insert(x, s) ==
    IF s = <<>> THEN <<x>>
    ELSE IF x <= s[1] THEN <<x>> \o s
    ELSE <<s[1]>> \o Insert(x, Tail(s))

\* np.sort: ascending.
RECURSIVE Sort(_)
Sort(s) == IF s = <<>> THEN <<>> ELSE Insert(s[1], Sort(Tail(s)))

RECURSIVE MinSeq(_)
MinSeq(s) == IF Len(s) = 1 THEN s[1]
             ELSE LET r == MinSeq(Tail(s)) IN IF s[1] < r THEN s[1] ELSE r

Zeros(n) == [i \in 1..n |-> 0]

\* ------------------------------------------------------------------ gini
\* The constant added to every element (1e-9 in the program): one unit.
Eps == 1

\* Mutant: the sort is left out.
GiniSorted_Unsorted(arr) ==
    LET lo      == MinSeq(arr)
        shifted == IF lo < 0 THEN [i \in 1..Len(arr) |-> FSub(arr[i], lo)] ELSE arr
    IN  [i \in 1..Len(arr) |-> FAdd(shifted[i], Eps)]

\* arr after the shift, the epsilon and the sort.
GiniSorted(arr) ==
    LET lo      == MinSeq(arr)
        shifted == IF lo < 0 THEN [i \in 1..Len(arr) |-> FSub(arr[i], lo)] ELSE arr
        bumped  == [i \in 1..Len(arr) |-> FAdd(shifted[i], Eps)]
    IN  Sort(bumped)

\* np.cumsum
CumSum(s) == [i \in 1..Len(s) |-> FSum(SubSeq(s, 1, i))]

\* cum[-1], the divisor of gini's ratio.
GiniDivisor(arr) == LET cum == CumSum(GiniSorted(arr)) IN cum[Len(cum)]

\* 2 * np.sum(cum) / cum[-1], a dimensionless float.
GiniRatio(arr) ==
    LET cum == CumSum(GiniSorted(arr))
    IN  RoundRat(Fl(2 * FSum(cum)) * One, cum[Len(cum)])

\* gini(arr), a dimensionless float; "ZeroDivision" when cum[-1] is 0.
gini(arr) ==
    LET n == Len(arr)
    IN  IF GiniDivisor(arr) = 0 THEN "ZeroDivision"
        ELSE RoundRat(FSub((n + 1) * One, GiniRatio(arr)), n)

\* --------------------------------------------------------------- the state
Scenarios == {"Baseline", "StakePool", "EqualPool", "RootStakePool"}
Pooled    == {"StakePool", "EqualPool", "RootStakePool"}

\* The mev values the model draws from: floats of MantBits bits, far
\* enough from the smallest unit that every amount derived from them keeps
\* its full precision.
MevValues == {8816, 41024}

\* The stakes the model draws from (the program draws from 1..99).
StakeValues == {1, 3}

VARIABLES
    NUM_VALIDATORS, NUM_BLOCKS, EPOCH_SIZE,   \* the parameters
    stakes, total_stake,                      \* the validator set
    mev_values, threshold,                    \* the block revenue sequence
    root_weights, total_root_weight,
    earnings, pool_balances,                  \* the ledgers and the pools
    b, proposer, mev, surplus, keep,          \* the loop's variables
    pc,                                       \* where the program is
    summary,                                  \* the Gini of each ledger
    distributions,                            \* history: distributions so far
    arr, result                               \* a call of gini on its own

vars == <<NUM_VALIDATORS, NUM_BLOCKS, EPOCH_SIZE, stakes, total_stake,
          mev_values, threshold, root_weights, total_root_weight,
          earnings, pool_balances, b, proposer, mev, surplus, keep, pc,
          summary, distributions, arr, result>>

\* Mutant: the mean instead of the median.
Median_Mean(s) == IF Len(s) = 0 THEN "nan" ELSE RoundRat(FSum(s), Len(s))

\* np.median: the middle element, or the mean of the two middle elements.
Median(s) ==
    LET srt == Sort(s)
        n   == Len(s)
    IN  IF n = 0 THEN "nan"
        ELSE IF n % 2 = 1 THEN srt[(n + 1) \div 2]
        ELSE RoundRat(FAdd(srt[n \div 2], srt[n \div 2 + 1]), 2)

RootWeights(st) == [v \in 1..Len(st) |-> FSqrt(st[v])]

\* ------------------------------------------------------------- the set-up
\* Lines 43-63 for given parameters: the stakes and the mev values are the
\* random draws, everything else is computed from them.
Setup ==
    /\ stakes \in [1..NUM_VALIDATORS -> StakeValues]
    /\ total_stake = SumSeq(stakes)
    /\ mev_values \in [1..NUM_BLOCKS -> MevValues]
    /\ threshold = Median(mev_values)
    /\ earnings = [s \in Scenarios |-> Zeros(NUM_VALIDATORS)]
    /\ pool_balances = [s \in Pooled |-> 0]
    /\ root_weights = RootWeights(stakes)
    /\ total_root_weight = FSum(root_weights)
    /\ b = 0 /\ proposer = 0 /\ mev = 0 /\ surplus = 0 /\ keep = 0
    /\ pc = IF NUM_BLOCKS > 0 THEN "block" ELSE "summary"
    /\ summary = <<>>
    /\ distributions = 0
    /\ arr = <<>> /\ result = 0

\* The program with positive parameters.
Init ==
    /\ NUM_VALIDATORS \in 1..MaxValidators
    /\ NUM_BLOCKS \in 1..MaxBlocks
    /\ EPOCH_SIZE \in 1..MaxEpoch
    /\ Setup

\* The program with parameters that may be zero.
InitAny ==
    /\ NUM_VALIDATORS \in 0..MaxValidators
    /\ NUM_BLOCKS \in 0..MaxBlocks
    /\ EPOCH_SIZE \in 0..MaxEpoch
    /\ Setup

params == <<NUM_VALIDATORS, NUM_BLOCKS, EPOCH_SIZE, stakes, total_stake,
            mev_values, threshold, root_weights, total_root_weight>>

\* ------------------------------------------------------ the per-block step
\* surplus = max(0.0, mev - threshold)
Surplus(m, t) == LET d == FSub(m, t) IN IF d > 0 THEN d ELSE 0

\* Mutant: the proposer keeps the full value.
Keep_Full(m, s) == m

\* keep = mev - surplus
Keep(m, s) == FSub(m, s)

\* ledger[proposer] += amount
Credit(ledger, p, amount) == [ledger EXCEPT ![p] = FAdd(@, amount)]

\* Mutant: Baseline credits keep, like the pooled scenarios.
ProposerShare_AllKeep(s, m, k) == k

\* What the proposer is credited under scenario s.
ProposerShare(s, m, k) == IF s = "Baseline" THEN m ELSE k

\* Mutant: the surplus never reaches the pool.
PoolAfterBlock_Dropped(pool, s) == pool

\* pool_balances[name] += surplus
PoolAfterBlock(pool, s) == FAdd(pool, s)

\* Lines 68-89: one proposer draw, one split, applied to the four scenarios.
Block ==
    /\ pc = "block"
    /\ NUM_VALIDATORS > 0
    /\ \E p \in 1..NUM_VALIDATORS :
        LET m == mev_values[b + 1]
            s == Surplus(m, threshold)
            k == Keep(m, s)
        IN  /\ proposer' = p
            /\ mev' = m
            /\ surplus' = s
            /\ keep' = k
            /\ earnings' = [n \in Scenarios |->
                               Credit(earnings[n], p, ProposerShare(n, m, k))]
            /\ pool_balances' = [n \in Pooled |->
                                    PoolAfterBlock(pool_balances[n], s)]
    /\ pc' = "epoch"
    /\ UNCHANGED <<params, b, summary, distributions, arr, result>>

\* Line 68 with no validator: RNG.choice(0, ...) raises.
ChoiceError ==
    /\ pc = "block"
    /\ NUM_VALIDATORS = 0
    /\ pc' = "ValueError"
    /\ UNCHANGED <<params, earnings, pool_balances, b, proposer, mev, surplus,
                   keep, summary, distributions, arr, result>>

\* ------------------------------------------------ the epoch distribution
\* Mutant: every scenario splits by head count.
Increment_EqualSplit(s, v, P) == RoundRat(P, NUM_VALIDATORS)

\* Mutant: EqualPool divides by the total stake.
Increment_PerStake(s, v, P) ==
    IF s = "StakePool" THEN Fl(stakes[v] * RoundRat(P, total_stake))
    ELSE IF s = "EqualPool" THEN RoundRat(P, total_stake)
    ELSE RoundRat(root_weights[v] * RoundRat(P * One, total_root_weight), One)

\* What validator v is paid out of a pool of balance P under scenario s.
Increment(s, v, P) ==
    IF s = "StakePool" THEN Fl(stakes[v] * RoundRat(P, total_stake))
    ELSE IF s = "EqualPool" THEN RoundRat(P, NUM_VALIDATORS)
    ELSE RoundRat(root_weights[v] * RoundRat(P * One, total_root_weight), One)

\* earnings[s] += the increments
Distributed(s, ledger, P) ==
    [v \in 1..NUM_VALIDATORS |-> FAdd(ledger[v], Increment(s, v, P))]

\* Mutant: the pool is not reset.
PoolAfterDistribution_Kept(P) == P

\* The balance a pool is left with by its distribution.
PoolAfterDistribution(P) == 0

\* for b in range(NUM_BLOCKS): the next block, or the end of the loop.
NextBlock ==
    IF b + 1 < NUM_BLOCKS
    THEN b' = b + 1 /\ pc' = "block"
    ELSE b' = b /\ pc' = "summary"

\* Mutant: the boundary test on b instead of b + 1.
EpochBoundary_OffByOne(i) == i % EPOCH_SIZE = 0

\* Whether line 92 holds for block index i.
EpochBoundary(i) == (i + 1) % EPOCH_SIZE = 0

\* Lines 92-103 at an epoch boundary.
Distribute ==
    /\ pc = "epoch"
    /\ EPOCH_SIZE # 0
    /\ EpochBoundary(b)
    /\ earnings' = [s \in Scenarios |->
                       IF s \in Pooled
                       THEN Distributed(s, earnings[s], pool_balances[s])
                       ELSE earnings[s]]
    /\ pool_balances' = [s \in Pooled |-> PoolAfterDistribution(pool_balances[s])]
    /\ distributions' = distributions + 1
    /\ NextBlock
    /\ UNCHANGED <<params, proposer, mev, surplus, keep, summary, arr, result>>

\* Line 92 away from an epoch boundary.
NoDistribute ==
    /\ pc = "epoch"
    /\ EPOCH_SIZE # 0
    /\ ~EpochBoundary(b)
    /\ NextBlock
    /\ UNCHANGED <<params, earnings, pool_balances, proposer, mev, surplus,
                   keep, summary, distributions, arr, result>>

\* Line 92 with EPOCH_SIZE = 0: (b + 1) % 0 raises.
EpochModError ==
    /\ pc = "epoch"
    /\ EPOCH_SIZE = 0
    /\ pc' = "ZeroDivisionError"
    /\ UNCHANGED <<params, earnings, pool_balances, b, proposer, mev, surplus,
                   keep, summary, distributions, arr, result>>

\* ------------------------------------------------------------ the summary
\* Lines 106-113: the Gini coefficient of every ledger.
Summary ==
    /\ pc = "summary"
    /\ NUM_VALIDATORS > 0
    /\ summary' = [s \in Scenarios |-> gini(earnings[s])]
    /\ pc' = "done"
    /\ UNCHANGED <<params, earnings, pool_balances, b, proposer, mev, surplus,
                   keep, distributions, arr, result>>

\* Line 112 with no validator: np.amin of an empty array raises.
SummaryError ==
    /\ pc = "summary"
    /\ NUM_VALIDATORS = 0
    /\ pc' = "ValueError"
    /\ UNCHANGED <<params, earnings, pool_balances, b, proposer, mev, surplus,
                   keep, summary, distributions, arr, result>>

Next == Block \/ Distribute \/ NoDistribute \/ Summary

Spec == Init /\ [][Next]_vars

NextAny == Next \/ ChoiceError \/ EpochModError \/ SummaryError

SpecAny == InitAny /\ [][NextAny]_vars

\* --------------------------------------------------- gini called on its own
\* The values the arrays handed to gini are drawn from.
GiniValues == {-8816, 0, 7760, 8816, 40000}

InitGini ==
    /\ arr \in UNION {[1..n -> GiniValues] : n \in 1..MaxArr}
    /\ result = 0
    /\ pc = "gini"
    /\ NUM_VALIDATORS = 0 /\ NUM_BLOCKS = 0 /\ EPOCH_SIZE = 0
    /\ stakes = <<>> /\ total_stake = 0
    /\ mev_values = <<>> /\ threshold = 0
    /\ root_weights = <<>> /\ total_root_weight = 0
    /\ earnings = [s \in Scenarios |-> <<>>]
    /\ pool_balances = [s \in Pooled |-> 0]
    /\ b = 0 /\ proposer = 0 /\ mev = 0 /\ surplus = 0 /\ keep = 0
    /\ summary = <<>>
    /\ distributions = 0

GiniCall ==
    /\ pc = "gini"
    /\ result' = gini(arr)
    /\ pc' = "gini_done"
    /\ UNCHANGED <<params, earnings, pool_balances, b, proposer, mev, surplus,
                   keep, summary, distributions, arr>>

SpecGini == InitGini /\ [][GiniCall]_vars

\* ================================================================ claims
\* The number of blocks whose per-block step has run.
Processed == IF pc = "block" THEN b ELSE b + 1

\* The exact sum of the first k mev values.
SumMev(k) == SumSeq(SubSeq(mev_values, 1, k))

\* The exact sum of a scenario's ledger.
LedgerSum(s) == SumSeq(earnings[s])

\* diff is within the rounding error of n floating-point operations on
\* amounts of at most total: half a unit in the last place each, which is
\* total / 2^MantBits, or half the smallest unit.
Within(diff, n, total) == MantLimit * Abs(diff) <= n * (total + MantLimit)

\* The roundings a pooled scenario has gone through: two additions a block
\* (ledger, pool); a quotient, a product and an addition per validator, and
\* the sum of the weights, at a distribution.
Roundings == 2 * Processed + distributions * (2 * NUM_VALIDATORS + 2)

\* The surpluses of blocks lo+1 .. hi (1-based) added up as the pool adds them.
SurplusSince(lo, hi) ==
    FSumFrom(0, [i \in 1..(hi - lo) |-> Surplus(mev_values[lo + i], threshold)])

\* The first block (1-based, minus one) of the epoch that is open after k
\* blocks have gone through line 92.
EpochStart(k) == (k \div EPOCH_SIZE) * EPOCH_SIZE

\* The blocks that have gone through the epoch check of line 92.
Checked == IF pc \in {"block", "epoch"} THEN b ELSE NUM_BLOCKS

\* C1: total conservation for the pooled policies. After any number of
\* processed blocks, in every state of the run (right after a block step,
\* right after a distribution, at the end), the sum of a pooled policy's
\* ledger plus its pool balance equals the sum of the mev values processed
\* so far, within floating-point tolerance.
C1_TotalConservation ==
    \A s \in Pooled :
        Within(LedgerSum(s) + pool_balances[s] - SumMev(Processed),
               Roundings, SumMev(Processed))

\* C1's case: a finished run that distributed and kept a residual pool.
C1_Witness ==
    /\ pc = "done"
    /\ distributions >= 1
    /\ pool_balances["StakePool"] > 0
    /\ \E v \in 1..NUM_VALIDATORS : earnings["StakePool"][v] > 0

\* C2: pool conservation at an epoch boundary. The step taken at line 92
\* when (b + 1) % EPOCH_SIZE = 0 leaves every pool at 0, and what it adds to
\* a policy's ledger sums to the pool balance held just before, within
\* floating-point tolerance.
C2_PoolConservation ==
    [][(pc = "epoch" /\ EpochBoundary(b)) =>
        \A s \in Pooled :
            /\ pool_balances'[s] = 0
            /\ Within(SumSeq(earnings'[s]) - SumSeq(earnings[s]) - pool_balances[s],
                      2 * NUM_VALIDATORS + 2, SumSeq(earnings'[s]))]_vars

\* The last block went through line 92 at an epoch boundary.
JustDistributed ==
    \/ pc = "block" /\ b > 0 /\ EpochBoundary(b - 1)
    \/ pc = "summary" /\ EpochBoundary(b)

\* C2's case: a distribution of a positive pool has just happened.
C2_Witness ==
    /\ JustDistributed
    /\ surplus > 0
    /\ \A s \in Pooled : pool_balances[s] = 0

\* C3: epoch truncation. Distributions happen only at block indices b with
\* (b + 1) % EPOCH_SIZE = 0: after k blocks have gone through line 92 there
\* have been k \div EPOCH_SIZE of them, NUM_BLOCKS \div EPOCH_SIZE at the end.
\* Between distributions a pool holds the surpluses of the blocks since the
\* last one, added up in order; at the end of the run that residual is still
\* in the pool, and the ledger's total is the sum of all mev values minus
\* that residual, within floating-point tolerance.
C3_EpochTruncation ==
    /\ distributions = Checked \div EPOCH_SIZE
    /\ \A s \in Pooled :
        /\ pool_balances[s] = SurplusSince(EpochStart(Checked), Processed)
        /\ pc \in {"summary", "done"} =>
            Within(LedgerSum(s) - (SumMev(NUM_BLOCKS)
                                   - SurplusSince(EpochStart(NUM_BLOCKS), NUM_BLOCKS)),
                   Roundings, SumMev(NUM_BLOCKS))

\* C3's case: NUM_BLOCKS is no multiple of EPOCH_SIZE, a distribution has
\* happened, and the run ended with a positive residual in the pool.
C3_Witness ==
    /\ pc = "done"
    /\ NUM_BLOCKS % EPOCH_SIZE # 0
    /\ distributions >= 1
    /\ \A s \in Pooled : pool_balances[s] > 0
    /\ LedgerSum("EqualPool") < SumMev(NUM_BLOCKS)

\* C4 (as amended): Baseline is threshold-blind. The block step changes the
\* Baseline ledger only at the proposer's entry, which becomes the
\* floating-point sum of its old value and the full mev value of the block,
\* whatever the threshold; the epoch step leaves the Baseline ledger alone;
\* and after k blocks the Baseline ledger sums to the sum of the first k mev
\* values up to the rounding of k floating-point additions.
C4_BaselineBlind ==
    /\ [][/\ pc = "block" =>
              earnings'["Baseline"] =
                  [earnings["Baseline"] EXCEPT
                      ![proposer'] = FAdd(@, mev_values[b + 1])]
          /\ pc = "epoch" => earnings'["Baseline"] = earnings["Baseline"]]_vars
    /\ [](Within(LedgerSum("Baseline") - SumMev(Processed),
                 Processed, SumMev(Processed)))

\* C4's case: the Baseline proposer got a block above the threshold in full,
\* and an epoch distribution has gone by.
C4_Witness ==
    /\ distributions >= 1
    /\ surplus > 0
    /\ earnings["Baseline"][proposer] > earnings["StakePool"][proposer]
    /\ LedgerSum("Baseline") # SumMev(Processed)

\* C4 as claimed: the Baseline ledger sums to exactly the sum of the mev
\* values processed so far.
C4_ExactSum == LedgerSum("Baseline") = SumMev(Processed)

\* C5 as claimed: with a parameter that is zero the run stops at set-up: no
\* block step runs and no ledger or pool is modified.
InvalidConfig == NUM_VALIDATORS <= 0 \/ NUM_BLOCKS <= 0 \/ EPOCH_SIZE <= 0

C5_FailFast ==
    InvalidConfig =>
        /\ pc # "epoch"
        /\ earnings = [s \in Scenarios |-> Zeros(NUM_VALIDATORS)]
        /\ pool_balances = [s \in Pooled |-> 0]

Min(x, y) == IF x <= y THEN x ELSE y

\* C6 (as amended): the per-block split. After a block step, keep + surplus
\* equals the block's mev value exactly and surplus >= 0; keep equals
\* min(mev, threshold) whenever mev <= 2 * threshold, and otherwise differs
\* from it by no more than the rounding of surplus. In each pooled policy the
\* step changes the ledger only at the proposer's entry, which becomes the
\* floating-point sum of its old value and keep, and the pool becomes the
\* floating-point sum of its old balance and surplus.
C6_SplitConservation ==
    /\ [](Processed > 0 =>
            /\ mev = mev_values[Processed]
            /\ keep + surplus = mev
            /\ surplus >= 0
            /\ mev <= 2 * threshold => keep = Min(mev, threshold)
            /\ MantLimit * Abs(keep - Min(mev, threshold)) <= surplus)
    /\ [][pc = "block" =>
            \A s \in Pooled :
                /\ earnings'[s] = [earnings[s] EXCEPT ![proposer'] = FAdd(@, keep')]
                /\ pool_balances'[s] = FAdd(pool_balances[s], surplus')]_vars

\* C6's case: a block above the threshold has been split, and keep is not
\* the threshold.
C6_Witness ==
    /\ pc = "epoch"
    /\ surplus > 0
    /\ keep # threshold
    /\ NUM_VALIDATORS > 1

\* C6 as claimed: keep is min(mev, threshold).
C6_KeepIsMin == Processed > 0 => keep = Min(mev, threshold)

\* What a distribution step adds to validator v's entry under scenario s.
Gain(s, v) == earnings'[s][v] - earnings[s][v]

\* C7 (as amended): the distribution rule. At an epoch boundary with
\* pre-distribution balance P every validator v, whether or not it ever
\* proposed, has its entry increased by stake[v] * P / totalStake under
\* StakePool, by P / NUM_VALIDATORS under EqualPool and by
\* rootWeight[v] * P / totalRootWeight under RootStakePool, each up to the
\* rounding of the quotient, the product and the addition to the entry.
C7_DistributionRule ==
    [][(pc = "epoch" /\ EpochBoundary(b)) =>
        \A v \in 1..NUM_VALIDATORS :
            /\ LET P == pool_balances["StakePool"]
               IN  Abs(Gain("StakePool", v) * total_stake - stakes[v] * P)
                     <= (2 * stakes[v] * P
                         + total_stake * earnings'["StakePool"][v]) \div MantLimit
                        + 3 * total_stake
            /\ LET P == pool_balances["EqualPool"]
               IN  Abs(Gain("EqualPool", v) * NUM_VALIDATORS - P)
                     <= (P + NUM_VALIDATORS * earnings'["EqualPool"][v]) \div MantLimit
                        + 2 * NUM_VALIDATORS
            /\ LET P == pool_balances["RootStakePool"]
               IN  Abs(Gain("RootStakePool", v) * total_root_weight
                       - root_weights[v] * P)
                     <= (2 * root_weights[v] * P
                         + total_root_weight * earnings'["RootStakePool"][v])
                          \div MantLimit
                        + 3 * total_root_weight]_vars

\* C7's case: after a distribution of a positive pool among validators of
\* different stakes, one that never proposed a block has been paid.
C7_Witness ==
    /\ JustDistributed
    /\ distributions = 1
    /\ \E u, v \in 1..NUM_VALIDATORS :
        /\ stakes[u] # stakes[v]
        /\ earnings["Baseline"][v] = 0
        /\ \A s \in Pooled : earnings[s][v] > 0

\* C7 as claimed: under StakePool the amounts paid to any two validators are
\* in the exact ratio of their stakes.
C7_ExactProportion ==
    (pc = "epoch" /\ EpochBoundary(b)) =>
        \A u, v \in 1..NUM_VALIDATORS :
            Increment("StakePool", u, pool_balances["StakePool"]) * stakes[v]
              = Increment("StakePool", v, pool_balances["StakePool"]) * stakes[u]

EqualStakes == \A u, v \in 1..NUM_VALIDATORS : stakes[u] = stakes[v]

UnitStakes == \A v \in 1..NUM_VALIDATORS : stakes[v] = 1

\* C8 (as amended): equal stakes. When all validators have the same stake the
\* three pool balances are identical in every state and do not depend on the
\* proposers, and the three ledgers agree entry by entry within
\* floating-point tolerance; when every stake is 1 (the spec's example) the
\* three ledgers are identical.
C8_EqualStakes ==
    /\ EqualStakes =>
        /\ \A s \in Pooled :
            pool_balances[s] = SurplusSince(EpochStart(Checked), Processed)
        /\ \A s, t \in Pooled : \A v \in 1..NUM_VALIDATORS :
            Within(earnings[s][v] - earnings[t][v], 3 * distributions,
                   earnings[s][v])
    /\ UnitStakes =>
        \A s, t \in Pooled : earnings[s] = earnings[t]

\* C8's case: equal stakes other than 1, a positive pool distributed.
C8_Witness ==
    /\ EqualStakes /\ ~UnitStakes
    /\ NUM_VALIDATORS > 1
    /\ JustDistributed
    /\ surplus > 0
    /\ earnings["StakePool"][proposer] > keep

\* C8 as claimed: with equal stakes the three ledgers are identical.
C8_Identical ==
    EqualStakes => \A s, t \in Pooled : earnings[s] = earnings[t]

\* The number of blocks whose mev value is at most, and at least, x.
CountAtMost(x) == Cardinality({i \in 1..NUM_BLOCKS : mev_values[i] <= x})

CountAtLeast(x) == Cardinality({i \in 1..NUM_BLOCKS : mev_values[i] >= x})

\* C9 (as amended): the threshold. At least half of the blocks have a mev
\* value at most the threshold and at least half have one at least the
\* threshold, for every sequence of NUM_BLOCKS >= 1 values, repeated values
\* included; the threshold is computed once and never changes during the
\* loop.
C9_Threshold ==
    /\ [](/\ 2 * CountAtMost(threshold) >= NUM_BLOCKS
          /\ 2 * CountAtLeast(threshold) >= NUM_BLOCKS)
    /\ [][threshold' = threshold]_vars

\* C9's case: a run whose mev values repeat, with more than half of the
\* blocks at or below the threshold.
C9_Witness ==
    /\ pc = "done"
    /\ NUM_BLOCKS >= 2
    /\ \E i, j \in 1..NUM_BLOCKS : i # j /\ mev_values[i] = mev_values[j]
    /\ CountAtMost(threshold) = NUM_BLOCKS

\* C9 as claimed: exactly half of the blocks (one more or one less than
\* half, for an odd number of blocks) are at most the threshold.
C9_ExactlyHalf ==
    IF NUM_BLOCKS % 2 = 0
    THEN 2 * CountAtMost(threshold) = NUM_BLOCKS
    ELSE Abs(2 * CountAtMost(threshold) - NUM_BLOCKS) <= 2

AllEqual(a) == \A i, j \in 1..Len(a) : a[i] = a[j]

\* C10 (as amended): Gini bounds. For any non-empty array (all zero, a
\* single element, negative values) gini never divides by zero, its result
\* is below 1 and is not below zero by more than rounding error, which is
\* (n + 1) units of 2 / 2^MantBits; for an array of equal values the result
\* is within that error of 0.
C10_GiniBounds ==
    pc = "gini_done" =>
        /\ GiniDivisor(arr) > 0
        /\ result < One
        /\ result >= -(Len(arr) + 1)
        /\ AllEqual(arr) => Abs(result) <= Len(arr) + 1

\* C10's case: gini has returned for an array with a negative value and
\* unequal elements.
C10_Witness ==
    /\ pc = "gini_done"
    /\ Len(arr) > 1
    /\ MinSeq(arr) < 0
    /\ ~AllEqual(arr)
    /\ result > 0

\* C10 as claimed: 0 <= gini(arr) < 1.
C10_ZeroToOne == pc = "gini_done" => (0 <= result /\ result < One)

====
